---- MODULE Spec2Model ----
(***************************************************************************)
(* Model of the two command-line tools of the repository:                  *)
(*   create_dataset_subset.py  (main, create_subset)                       *)
(*   verify_subset.py          (main, verify_subset)                       *)
(* The dataset store (load_from_disk, select, save_to_disk) and the numpy  *)
(* generator are external; they are modelled by their contracts.           *)
(***************************************************************************)
EXTENDS Integers, Sequences, FiniteSets, TLC

(* ---------------- bounds of the model ---------------- *)
MaxTotal == 3
MaxSeed == 1
PctDen == 4
MaxPctNum == 5

(* ---------------- values ---------------- *)
\* Python's None / an optional value is a sequence of length 0 / 1.
None == <<>>
Some(x) == <<x>>
Val(o) == o[1]

Totals == 0..MaxTotal
Sizes == (-1)..(MaxTotal + 1)
PctNums == (-1)..MaxPctNum
Seeds == 0..MaxSeed

Min(a, b) == IF a <= b THEN a ELSE b

\* The record stored at (0-based) index i of a source dataset.
Record(i) == i % 2

\* The dataset that load_from_disk returns for the source path `input`:
\* an ordered sequence of records (1-based in the model, index i is at i+1).
load_from_disk(input) == [i \in 1..input |-> Record(i - 1)]

VARIABLES
    entry,          \* "main": run from the command line, "call": create_subset called
    input,          \* the source on disk, identified by its record count
    size,           \* --size / subset_size argument (None or Some(int))
    subset_percentage, \* --percentage argument (None or Some(n)), meaning n / PctDen
    seed,           \* --seed
    entropy,        \* operating-system entropy, what an unseeded generator reads
    output0,        \* the destination path on disk when the run starts
    pc,             \* position of the run
    log,            \* the external calls made so far in this run
    dataset,        \* None until loaded
    total_size,
    subset_size,    \* None until resolved
    rng,            \* state of the generator, None until constructed
    random_indices,
    subset,         \* None until selected
    output,         \* the destination path on disk
    error,          \* the exception that ended the run, "" if none
    prev,           \* an earlier finished run of the same command: what it saved
    \* ---- verify_subset.py ----
    original_disk,  \* what is at original_path
    subset_disk,    \* what is at subset_path
    show_samples,   \* --samples
    vpc,            \* position of the verifier run
    checks,         \* the checks and external calls made so far, in order
    original_dataset,
    subset_dataset,
    original_size,
    v_subset_size,
    percentage,     \* None until computed, then Some(<<numerator, denominator>>)
    reported,       \* what the report shows of the percentage (None until printed)
    warnings,       \* the warnings printed
    result,         \* return value of verify_subset (None while running)
    exit_status     \* process exit status (None while running)

cvars == <<entry, input, size, subset_percentage, seed, entropy, output0, pc, log, dataset,
           total_size, subset_size, rng, random_indices, subset, output, error, prev>>

vvars == <<original_disk, subset_disk, show_samples, vpc, checks, original_dataset,
           subset_dataset, original_size, v_subset_size, percentage, reported,
           warnings, result, exit_status>>

vars == <<cvars, vvars>>

args == <<entry, input, size, subset_percentage, seed, entropy, output0>>
locals == <<dataset, total_size, subset_size, rng, random_indices, subset>>

(* ---------------- pure helpers ---------------- *)
\* Variant: round() in place of int().
IntTrunc_round(num, den) == (2 * num + den) \div (2 * den)

\* int(x) of Python for the rational num / den (den > 0): truncation toward zero.
IntTrunc(num, den) == IF num >= 0 THEN num \div den ELSE -((-num) \div den)

\* floor of the rational num / den (den > 0).
Floor(num, den) == num \div den

Remove(s, j) == [i \in 1..(Len(s) - 1) |-> IF i < j THEN s[i] ELSE s[i + 1]]

\* Variant: default_rng() without the seed, seeded from system entropy.
default_rng_entropy(sd) == (7 * entropy + 5) % 16

\* np.random.default_rng(seed=random_seed): a generator whose state is a
\* function of the seed alone.
default_rng(sd) == (7 * sd + 5) % 16

\* One step of the generator.
RngNext(s) == (5 * s + 3) % 16

\* rng.choice(total, size=k, replace=False): k draws from the indices
\* 0..total-1, each drawn index leaves the pool.  Result is in draw order.
RECURSIVE DrawFrom(_, _, _)
DrawFrom(s, pool, k) ==
    IF k = 0 THEN <<>>
    ELSE LET j == (s % Len(pool)) + 1
         IN <<pool[j]>> \o DrawFrom(RngNext(s), Remove(pool, j), k - 1)

\* Variant: replace=True, a drawn index stays in the pool.
RECURSIVE DrawWithReplacement(_, _, _)
DrawWithReplacement(s, total, k) ==
    IF k = 0 THEN <<>>
    ELSE <<s % total>> \o DrawWithReplacement(RngNext(s), total, k - 1)

choice_replace(s, total, k) == DrawWithReplacement(s, total, k)

choice(s, total, k) == DrawFrom(s, [i \in 1..total |-> i - 1], k)

RECURSIVE RngAfter(_, _)
RngAfter(s, k) == IF k = 0 THEN s ELSE RngAfter(RngNext(s), k - 1)

\* sorted(xs): ascending, keeps duplicates.
RECURSIVE Insert(_, _)
Insert(x, s) ==
    IF s = <<>> THEN <<x>>
    ELSE IF x <= Head(s) THEN <<x>> \o s
    ELSE <<Head(s)>> \o Insert(x, Tail(s))

\* Variant: the sort is dropped, the indices stay in draw order.
sorted_draw_order(s) == s

RECURSIVE sorted(_)
sorted(s) == IF s = <<>> THEN <<>> ELSE Insert(Head(s), sorted(Tail(s)))

\* dataset.select(indices): the records at the indices, in the order given.
select(ds, idx) == [k \in 1..Len(idx) |-> ds[idx[k] + 1]]

Absent == [exists |-> FALSE, data |-> None]
EmptyDir == [exists |-> TRUE, data |-> None]

(* ---------------- the Subset Verifier: values ---------------- *)
\* A field value of a record, as far as the verifier looks at it: its type,
\* and for a list its length and the type of its first element.
StrV == [type |-> "str", len |-> 3, elem |-> "none"]
IntV == [type |-> "int", len |-> 0, elem |-> "none"]
EmptyListV == [type |-> "list", len |-> 0, elem |-> "none"]
IntListV == [type |-> "list", len |-> 2, elem |-> "int"]
Values == {StrV, IntV, EmptyListV, IntListV}

\* Record 0 of a dataset: a mapping from field name to value.  Field "src"
\* is a string where present; field "tgt" takes every kind of value.
Records == UNION {[K -> Values] : K \in {{"tgt"}, {"src", "tgt"}}}
VRecords == {r \in Records : "src" \in DOMAIN r => r["src"] = StrV}

\* What is at a path: whether it exists, whether load_from_disk raises,
\* the number of records, and the shape of the records.
MaxVSize == 2
Disks == [exists : BOOLEAN, loads : BOOLEAN, size : 0..MaxVSize, rec : VRecords]
NoDisk == [exists |-> FALSE, loads |-> FALSE, size |-> 0, rec |-> [k \in {"tgt"} |-> StrV]]

\* The verifier is not running.
VIdle ==
    /\ original_disk = NoDisk
    /\ subset_disk = NoDisk
    /\ show_samples = 0
    /\ vpc = "idle"
    /\ checks = <<>>
    /\ original_dataset = None
    /\ subset_dataset = None
    /\ original_size = 0
    /\ v_subset_size = 0
    /\ percentage = None
    /\ reported = None
    /\ warnings = {}
    /\ result = None
    /\ exit_status = None

\* The creator is not running.
CIdle ==
    /\ entry = "main"
    /\ input = 0
    /\ size = None
    /\ subset_percentage = None
    /\ seed = 0
    /\ entropy = 0
    /\ output0 = [exists |-> FALSE, data |-> None]
    /\ pc = "idle"
    /\ log = <<>>
    /\ dataset = None
    /\ total_size = 0
    /\ subset_size = None
    /\ rng = None
    /\ random_indices = <<>>
    /\ subset = None
    /\ output = [exists |-> FALSE, data |-> None]
    /\ error = ""
    /\ prev = None

(* ---------------- the Subset Creator ---------------- *)
Init ==
    /\ entry \in {"main", "call"}
    /\ input \in Totals
    /\ size \in {None} \cup {Some(n) : n \in Sizes}
    /\ subset_percentage \in {None} \cup {Some(n) : n \in PctNums}
    /\ seed \in Seeds
    /\ entropy \in 0..1
    /\ output0 \in {Absent, EmptyDir}
    /\ pc = "start"
    /\ log = <<>>
    /\ dataset = None
    /\ total_size = 0
    /\ subset_size = None
    /\ rng = None
    /\ random_indices = <<>>
    /\ subset = None
    /\ output = output0
    /\ error = ""
    /\ prev = None
    /\ VIdle

Fail(e) == /\ pc' = "failed"
           /\ error' = e

\* Variant: the check for both --size and --percentage is missing.
MainValidate_NoBothCheck ==
    /\ pc = "start"
    /\ entry = "main"
    /\ IF size = None /\ subset_percentage = None
       THEN Fail("usage: neither")
       ELSE pc' = "load" /\ error' = error
    /\ UNCHANGED <<args, locals, log, output, prev>>
    /\ UNCHANGED vvars

\* main(), lines 103-118: the argument checks, then the call of create_subset.
MainValidate ==
    /\ pc = "start"
    /\ entry = "main"
    /\ IF size = None /\ subset_percentage = None
       THEN Fail("usage: neither")
       ELSE IF size # None /\ subset_percentage # None
       THEN Fail("usage: both")
       ELSE pc' = "load" /\ error' = error
    /\ UNCHANGED <<args, locals, log, output, prev>>
    /\ UNCHANGED vvars

\* create_subset called directly with its keyword arguments.
DirectCall ==
    /\ pc = "start"
    /\ entry = "call"
    /\ pc' = "load"
    /\ UNCHANGED <<args, locals, log, output, error, prev>>
    /\ UNCHANGED vvars

\* Variant: the destination directory is created before the source is loaded.
Load_MakedirsFirst ==
    /\ pc = "load"
    /\ log' = Append(log, "load")
    /\ output' = [output EXCEPT !.exists = TRUE]
    /\ \E ok \in BOOLEAN :
         IF ok
         THEN /\ dataset' = Some(load_from_disk(input))
              /\ total_size' = Len(load_from_disk(input))
              /\ pc' = "resolve"
              /\ error' = error
         ELSE /\ Fail("load error")
              /\ UNCHANGED <<dataset, total_size>>
    /\ UNCHANGED <<args, subset_size, rng, random_indices, subset, prev>>
    /\ UNCHANGED vvars

\* lines 18-22: load the source; a load error propagates.
Load ==
    /\ pc = "load"
    /\ log' = Append(log, "load")
    /\ \E ok \in BOOLEAN :
         IF ok
         THEN /\ dataset' = Some(load_from_disk(input))
              /\ total_size' = Len(load_from_disk(input))
              /\ pc' = "resolve"
              /\ error' = error
         ELSE /\ Fail("load error")
              /\ UNCHANGED <<dataset, total_size>>
    /\ UNCHANGED <<args, subset_size, rng, random_indices, subset, output, prev>>
    /\ UNCHANGED vvars

\* lines 25-32: resolve subset_size.
Resolve ==
    /\ pc = "resolve"
    /\ IF size # None
       THEN /\ subset_size' = Some(Min(Val(size), total_size))
            \* the progress line divides by total_size
            /\ IF total_size = 0
               THEN Fail("ZeroDivisionError")
               ELSE pc' = "draw" /\ error' = error
       ELSE IF subset_percentage # None
       THEN /\ subset_size' = Some(IntTrunc(total_size * Val(subset_percentage), PctDen))
            /\ pc' = "draw"
            /\ error' = error
       ELSE /\ Fail("ValueError: neither")
            /\ UNCHANGED subset_size
    /\ UNCHANGED <<args, log, dataset, total_size, rng, random_indices, subset, output, prev>>
    /\ UNCHANGED vvars

\* lines 36-38: construct the generator from the seed, draw without
\* replacement, sort.  choice raises ValueError for a negative size and for
\* a size above the population.
Draw ==
    /\ pc = "draw"
    /\ LET k == Val(subset_size)
           g == default_rng(seed)
       IN IF k < 0 \/ k > total_size
          THEN /\ rng' = Some(g)
               /\ Fail("ValueError: choice")
               /\ UNCHANGED random_indices
          ELSE /\ rng' = Some(RngAfter(g, k))
               /\ random_indices' = sorted(choice(g, total_size, k))
               /\ pc' = "select"
               /\ error' = error
    /\ UNCHANGED <<args, log, dataset, total_size, subset_size, subset, output, prev>>
    /\ UNCHANGED vvars

\* line 42: subset = dataset.select(random_indices)
Select ==
    /\ pc = "select"
    /\ log' = Append(log, "select")
    /\ subset' = Some(select(Val(dataset), random_indices))
    /\ pc' = "makedirs"
    /\ UNCHANGED <<args, dataset, total_size, subset_size, rng, random_indices,
                   output, error, prev>>
    /\ UNCHANGED vvars

\* line 45: os.makedirs(output_path, exist_ok=True)
Makedirs ==
    /\ pc = "makedirs"
    /\ log' = Append(log, "makedirs")
    /\ output' = [output EXCEPT !.exists = TRUE]
    /\ pc' = "save"
    /\ UNCHANGED <<args, locals, error, prev>>
    /\ UNCHANGED vvars

\* line 49: subset.save_to_disk(output_path); a save error propagates.
Save ==
    /\ pc = "save"
    /\ log' = Append(log, "save")
    /\ \E ok \in BOOLEAN :
         IF ok
         THEN /\ output' = [output EXCEPT !.data = subset]
              /\ pc' = "done"
              /\ error' = error
         ELSE /\ Fail("save error")
              /\ UNCHANGED output
    /\ UNCHANGED <<args, locals, prev>>
    /\ UNCHANGED vvars

\* What a finished run is remembered by.
RunRecord == [indices |-> random_indices, saved |-> output.data]

\* The process has exited; the same command is run again, with whatever
\* entropy the system then has and a destination of its own.
Rerun ==
    /\ pc \in {"done", "failed"}
    /\ prev' = IF pc = "done" THEN Some(RunRecord) ELSE prev
    /\ entropy' \in 0..1
    /\ output0' \in {Absent, EmptyDir}
    /\ output' = output0'
    /\ pc' = "start"
    /\ log' = <<>>
    /\ dataset' = None
    /\ total_size' = 0
    /\ subset_size' = None
    /\ rng' = None
    /\ random_indices' = <<>>
    /\ subset' = None
    /\ error' = ""
    /\ UNCHANGED <<entry, input, size, subset_percentage, seed>>
    /\ UNCHANGED vvars

Next ==
    \/ MainValidate
    \/ DirectCall
    \/ Load
    \/ Resolve
    \/ Draw
    \/ Select
    \/ Makedirs
    \/ Save
    \/ Rerun

Spec == Init /\ [][Next]_vars

(* ---------------- properties of the Subset Creator ---------------- *)
Range(s) == {s[i] : i \in DOMAIN s}

\* The size the run was asked for, once resolved: the --size argument when
\* given, otherwise the size resolved from the percentage.
Requested == IF size # None THEN Val(size) ELSE Val(subset_size)

\* C1: for 0 < subset_size <= total a successful run saves exactly
\* subset_size records, the k-th being the source record at index i_k, every
\* i_k in [0, total), and i_1 <= i_2 <= ... (ascending, not draw order).
C1_SubsetSizeAndOrder ==
    (pc = "done" /\ 0 < Requested /\ Requested <= total_size) =>
        /\ output.data # None
        /\ Len(Val(output.data)) = Requested
        /\ Len(random_indices) = Requested
        /\ \A k \in 1..Requested :
             /\ random_indices[k] \in 0..(total_size - 1)
             /\ Val(output.data)[k] = load_from_disk(input)[random_indices[k] + 1]
        /\ \A k \in 1..(Requested - 1) : random_indices[k] <= random_indices[k + 1]

\* A successful run whose draw order was not ascending.
C1_Witness ==
    /\ pc = "done"
    /\ size = Some(2)
    /\ total_size = 3
    /\ choice(default_rng(seed), 3, 2) # random_indices

\* C2: the index list passed to dataset.select never holds an index twice.
C2_NoDuplicateIndices ==
    ("select" \in Range(log)) =>
        \A i, j \in DOMAIN random_indices :
            i # j => random_indices[i] # random_indices[j]

\* select was called with at least two indices.
C2_Witness ==
    /\ "select" \in Range(log)
    /\ Len(random_indices) >= 2
    /\ Len(random_indices) < total_size

\* C3: a run of the same command (same input, size or percentage, seed)
\* selects the same index list and saves the same output as the run before,
\* whatever the system entropy and the state of the destination.
C3_Determinism ==
    (pc = "done" /\ prev # None) =>
        /\ Val(prev).indices = random_indices
        /\ Val(prev).saved = output.data

\* A second successful run that drew a proper, non-empty sample.
C3_Witness ==
    /\ pc = "done"
    /\ prev # None
    /\ Len(random_indices) >= 1
    /\ Len(random_indices) < total_size

\* C4: a --size above the record count raises no error, is clamped to
\* total, and the saved subset is the whole source in original order.
C4_ClampToTotal ==
    (size # None /\ dataset # None /\ Val(size) > Len(Val(dataset))) =>
        /\ error \notin {"ZeroDivisionError", "ValueError: choice"}
        /\ subset_size # None => Val(subset_size) = total_size
        /\ pc = "done" => output.data = dataset

\* --size and --percentage both missing, or both given.
BadCriterion == (size = None) <=> (subset_percentage = None)

C7_FloorForEveryPercentage ==
    (size = None /\ subset_percentage # None /\ subset_size # None) =>
        /\ Val(subset_size) = Floor(total_size * Val(subset_percentage), PctDen)
        /\ pc = "done" => Len(Val(output.data)) = Val(subset_size)

\* C7 amended: with a percentage >= 0, subset_size = floor(total * percentage);
\* with a negative one int() rounds toward zero, i.e. up; a run that saves,
\* saves exactly subset_size records.
C7_TruncatedPercentage ==
    (size = None /\ subset_percentage # None /\ subset_size # None) =>
        /\ Val(subset_percentage) >= 0 =>
             Val(subset_size) = Floor(total_size * Val(subset_percentage), PctDen)
        /\ Val(subset_percentage) < 0 =>
             Val(subset_size) = -Floor(-(total_size * Val(subset_percentage)), PctDen)
        /\ pc = "done" => Len(Val(output.data)) = Val(subset_size)

\* Half of three records: floor(1.5) = 1 record saved.
C7_Witness ==
    /\ pc = "done"
    /\ size = None
    /\ subset_percentage = Some(2)
    /\ total_size = 3
    /\ Len(Val(output.data)) = 1

\* C10: the destination changes only in runs that reached makedirs, and
\* makedirs is reached only after load, resolve, draw and select; a run that
\* failed before the save step leaves the destination as it was.
C10_DestinationTouchedLast ==
    /\ output # output0 => "makedirs" \in Range(log)
    /\ "makedirs" \in Range(log) =>
         /\ dataset # None
         /\ subset_size # None
         /\ rng # None
         /\ subset # None
         /\ log \in {<<"load", "select", "makedirs">>, <<"load", "select", "makedirs", "save">>}
    /\ (pc = "failed" /\ error # "save error") => output = output0

\* The draw was impossible (percentage above 1 or negative size) and the
\* destination is still absent.
C10_Witness ==
    /\ pc = "failed"
    /\ error = "ValueError: choice"
    /\ output0 = Absent
    /\ output = Absent

(* ---------------- the Subset Verifier ---------------- *)
MaxShow == 2

VInit ==
    /\ CIdle
    /\ original_disk \in Disks
    /\ subset_disk \in Disks
    /\ show_samples \in 0..MaxShow
    /\ vpc = "exists"
    /\ checks = <<>>
    /\ original_dataset = None
    /\ subset_dataset = None
    /\ original_size = 0
    /\ v_subset_size = 0
    /\ percentage = None
    /\ reported = None
    /\ warnings = {}
    /\ result = None
    /\ exit_status = None

Return(b) == /\ result' = Some(b)
             /\ vpc' = "returned"

\* Variant: the return after the missing subset path is forgotten.
CheckExistence_NoReturn ==
    /\ vpc = "exists"
    /\ IF ~original_disk.exists
       THEN /\ checks' = checks \o <<"exists original">>
            /\ Return(FALSE)
       ELSE /\ checks' = checks \o <<"exists original", "exists subset">>
            /\ vpc' = "load"
            /\ UNCHANGED result
    /\ UNCHANGED <<original_disk, subset_disk, show_samples, original_dataset,
                   subset_dataset, original_size, v_subset_size, percentage,
                   reported, warnings, exit_status>>
    /\ UNCHANGED cvars

\* lines 20-32: both paths must exist.
CheckExistence ==
    /\ vpc = "exists"
    /\ IF ~original_disk.exists
       THEN /\ checks' = checks \o <<"exists original">>
            /\ Return(FALSE)
       ELSE IF ~subset_disk.exists
       THEN /\ checks' = checks \o <<"exists original", "exists subset">>
            /\ Return(FALSE)
       ELSE /\ checks' = checks \o <<"exists original", "exists subset">>
            /\ vpc' = "load"
            /\ UNCHANGED result
    /\ UNCHANGED <<original_disk, subset_disk, show_samples, original_dataset,
                   subset_dataset, original_size, v_subset_size, percentage,
                   reported, warnings, exit_status>>
    /\ UNCHANGED cvars

\* lines 35-49: load the original, then the subset; an exception of either
\* load returns False.
LoadDatasets ==
    /\ vpc = "load"
    /\ IF ~original_disk.loads
       THEN /\ checks' = checks \o <<"load original">>
            /\ Return(FALSE)
            /\ UNCHANGED <<original_dataset, subset_dataset>>
       ELSE IF ~subset_disk.loads
       THEN /\ checks' = checks \o <<"load original", "load subset">>
            /\ original_dataset' = Some(original_disk)
            /\ Return(FALSE)
            /\ UNCHANGED subset_dataset
       ELSE /\ checks' = checks \o <<"load original", "load subset">>
            /\ original_dataset' = Some(original_disk)
            /\ subset_dataset' = Some(subset_disk)
            /\ vpc' = "size"
            /\ UNCHANGED result
    /\ UNCHANGED <<original_disk, subset_disk, show_samples, original_size,
                   v_subset_size, percentage, reported, warnings, exit_status>>
    /\ UNCHANGED cvars

\* line 55: (subset_size / original_size) * 100 if original_size > 0 else 0,
\* kept as the fraction numerator / denominator.
Percentage(sub, orig) == IF orig > 0 THEN <<sub * 100, orig>> ELSE <<0, 1>>

\* Variant: a subset as large as the original is rejected (>= for >).
CompareSizes_Strict ==
    /\ vpc = "size"
    /\ checks' = Append(checks, "size")
    /\ original_size' = Val(original_dataset).size
    /\ v_subset_size' = Val(subset_dataset).size
    /\ percentage' = Some(Percentage(v_subset_size', original_size'))
    /\ reported' = percentage'
    /\ IF v_subset_size' >= original_size'
       THEN Return(FALSE)
       ELSE IF v_subset_size' = 0
       THEN Return(FALSE)
       ELSE vpc' = "features" /\ UNCHANGED result
    /\ UNCHANGED <<original_disk, subset_disk, show_samples, original_dataset,
                   subset_dataset, warnings, exit_status>>
    /\ UNCHANGED cvars

\* Variant: the percentage is computed and printed after the fail conditions.
CompareSizes_PercentageLast ==
    /\ vpc = "size"
    /\ checks' = Append(checks, "size")
    /\ original_size' = Val(original_dataset).size
    /\ v_subset_size' = Val(subset_dataset).size
    /\ IF v_subset_size' > original_size' \/ v_subset_size' = 0
       THEN /\ Return(FALSE)
            /\ UNCHANGED <<percentage, reported>>
       ELSE /\ percentage' = Some(Percentage(v_subset_size', original_size'))
            /\ reported' = percentage'
            /\ vpc' = "features"
            /\ UNCHANGED result
    /\ UNCHANGED <<original_disk, subset_disk, show_samples, original_dataset,
                   subset_dataset, warnings, exit_status>>
    /\ UNCHANGED cvars

\* lines 51-67: the sizes and the percentage are printed, then the two
\* fail conditions are tested.
CompareSizes ==
    /\ vpc = "size"
    /\ checks' = Append(checks, "size")
    /\ original_size' = Val(original_dataset).size
    /\ v_subset_size' = Val(subset_dataset).size
    /\ percentage' = Some(Percentage(v_subset_size', original_size'))
    /\ reported' = percentage'
    /\ IF v_subset_size' > original_size'
       THEN Return(FALSE)
       ELSE IF v_subset_size' = 0
       THEN Return(FALSE)
       ELSE vpc' = "features" /\ UNCHANGED result
    /\ UNCHANGED <<original_disk, subset_disk, show_samples, original_dataset,
                   subset_dataset, warnings, exit_status>>
    /\ UNCHANGED cvars

\* dataset.features.keys()
Features(ds) == DOMAIN ds.rec

\* lines 69-85: a difference of the feature sets is a warning.
CheckFeatures ==
    /\ vpc = "features"
    /\ checks' = Append(checks, "features")
    /\ warnings' = IF Features(Val(original_dataset)) = Features(Val(subset_dataset))
                   THEN warnings
                   ELSE warnings \cup {"features differ"}
    /\ vpc' = "sample"
    /\ UNCHANGED <<original_disk, subset_disk, show_samples, original_dataset,
                   subset_dataset, original_size, v_subset_size, percentage,
                   reported, result, exit_status>>
    /\ UNCHANGED cvars

\* The keys of a record, in the order the mapping yields them.
KeysOf(r) == SelectSeq(<<"src", "tgt">>, LAMBDA k : k \in DOMAIN r)

\* lines 102-116: the loop over the keys of record 0 of the original.  It
\* yields the warnings printed and whether an exception left the loop:
\* len() of a subset value that is a number raises TypeError.
RECURSIVE SampleLoop(_, _, _, _)
SampleLoop(keys, o, s, acc) ==
    IF keys = <<>> THEN [warn |-> acc, exc |-> FALSE]
    ELSE LET k == Head(keys)
         IN IF k \notin DOMAIN s
            THEN SampleLoop(Tail(keys), o, s, acc)
            ELSE LET w1 == IF o[k].type # s[k].type
                           THEN acc \cup {"type mismatch"} ELSE acc
                 IN IF o[k].type = "list"
                    THEN IF s[k].type = "int"
                         THEN [warn |-> w1, exc |-> TRUE]
                         ELSE SampleLoop(Tail(keys), o, s,
                                  IF s[k].len = 0 /\ o[k].len > 0
                                  THEN w1 \cup {"empty list"} ELSE w1)
                    ELSE SampleLoop(Tail(keys), o, s, w1)

\* lines 87-121: record 0 of both datasets is compared inside try/except;
\* every finding is a warning.
CheckSample ==
    /\ vpc = "sample"
    /\ checks' = Append(checks, "sample")
    /\ LET o == Val(original_dataset).rec
           s == Val(subset_dataset).rec
           w0 == IF DOMAIN o = DOMAIN s THEN warnings
                 ELSE warnings \cup {"structure differs"}
           r == SampleLoop(KeysOf(o), o, s, w0)
       IN warnings' = IF r.exc THEN r.warn \cup {"error checking sample"} ELSE r.warn
    /\ vpc' = "preview"
    /\ UNCHANGED <<original_disk, subset_disk, show_samples, original_dataset,
                   subset_dataset, original_size, v_subset_size, percentage,
                   reported, result, exit_status>>
    /\ UNCHANGED cvars

\* lines 131-132: value[0] of an empty list raises IndexError.
PreviewRaises(n, r) == n > 0 /\ \E k \in DOMAIN r : r[k].type = "list" /\ r[k].len = 0

\* lines 123-142: with show_samples > 0, up to min(show_samples, len(subset))
\* records are printed inside try/except.
Preview ==
    /\ vpc = "preview"
    /\ IF show_samples > 0
       THEN /\ checks' = Append(checks, "preview")
            /\ warnings' = IF PreviewRaises(Min(show_samples, Val(subset_dataset).size),
                                            Val(subset_dataset).rec)
                           THEN warnings \cup {"error displaying samples"}
                           ELSE warnings
       ELSE UNCHANGED <<checks, warnings>>
    /\ vpc' = "summary"
    /\ UNCHANGED <<original_disk, subset_disk, show_samples, original_dataset,
                   subset_dataset, original_size, v_subset_size, percentage,
                   reported, result, exit_status>>
    /\ UNCHANGED cvars

\* lines 144-153: the summary with the success banner, return True.
Summary ==
    /\ vpc = "summary"
    /\ checks' = Append(checks, "summary")
    /\ reported' = percentage
    /\ Return(TRUE)
    /\ UNCHANGED <<original_disk, subset_disk, show_samples, original_dataset,
                   subset_dataset, original_size, v_subset_size, percentage,
                   warnings, exit_status>>
    /\ UNCHANGED cvars

\* main(), lines 196-202: exit(0 if success else 1)
VExit ==
    /\ vpc = "returned"
    /\ exit_status' = Some(IF Val(result) THEN 0 ELSE 1)
    /\ vpc' = "exited"
    /\ UNCHANGED <<original_disk, subset_disk, show_samples, checks, original_dataset,
                   subset_dataset, original_size, v_subset_size, percentage,
                   reported, warnings, result>>
    /\ UNCHANGED cvars

VNext ==
    \/ CheckExistence
    \/ LoadDatasets
    \/ CompareSizes
    \/ CheckFeatures
    \/ CheckSample
    \/ Preview
    \/ Summary
    \/ VExit

VerifySpec == VInit /\ [][VNext]_vars

(* ---------------- properties of the Subset Verifier ---------------- *)
\* Both paths exist, both datasets load, and 0 < subset size <= original size.
Passes ==
    /\ original_disk.exists /\ subset_disk.exists
    /\ original_disk.loads /\ subset_disk.loads
    /\ 0 < subset_disk.size
    /\ subset_disk.size <= original_disk.size

\* C6: verify_subset returns True (exit status 0) exactly when both paths
\* exist, both datasets load and 0 < subset size <= original size, else False
\* (exit status 1); no warning changes the verdict.
C6_Verdict ==
    /\ result # None => (Val(result) <=> Passes)
    /\ exit_status # None => Val(exit_status) = (IF Passes THEN 0 ELSE 1)
    /\ vpc \in {"returned", "exited"} <=> result # None

\* A run that warned about the features, about record 0 and about an
\* exception of the preview, and still exited with 0.
C6_Witness ==
    /\ exit_status = Some(0)
    /\ {"features differ", "structure differs", "empty list", "error displaying samples"}
         \subseteq warnings

FullOrder == <<"exists original", "exists subset", "load original", "load subset",
               "size", "features", "sample", "preview", "summary">>

NoPreviewOrder == SelectSeq(FullOrder, LAMBDA c : c # "preview")

IsPrefix(s, t) == Len(s) <= Len(t) /\ \A i \in 1..Len(s) : s[i] = t[i]

\* C8: the checks run in the order existence, load, size, features, sample,
\* preview, summary; a missing path stops the run before any load, a load
\* exception before the size check, a failed size check before the feature
\* check.
C8_OrderAndShortCircuit ==
    /\ IsPrefix(checks, IF show_samples > 0 THEN FullOrder ELSE NoPreviewOrder)
    /\ ~(original_disk.exists /\ subset_disk.exists) =>
         Range(checks) \subseteq {"exists original", "exists subset"}
    /\ ~(original_disk.loads /\ subset_disk.loads) =>
         Range(checks) \cap {"size", "features", "sample", "preview", "summary"} = {}
    /\ (subset_disk.size > original_disk.size \/ subset_disk.size = 0) =>
         Range(checks) \cap {"features", "sample", "preview", "summary"} = {}

\* The subset path is missing: the run has returned without a load.
C8_Witness ==
    /\ result = Some(FALSE)
    /\ original_disk.exists
    /\ ~subset_disk.exists
    /\ subset_disk.loads
    /\ checks = <<"exists original", "exists subset">>

\* C9 as stated: a percentage is reported only in runs with
\* 0 < subset size <= original size.
C9_PercentageOnlyOnPass ==
    reported # None => (0 < v_subset_size /\ v_subset_size <= original_size)

\* C9 amended: every run that reaches the size check computes and reports
\* the percentage (0 for an empty original) before the fail conditions are
\* tested; a larger or an empty subset then makes the run fail.
C9_PercentageBeforeFail ==
    /\ reported # None <=> "size" \in Range(checks)
    /\ reported # None =>
         /\ reported = percentage
         /\ original_size > 0 =>
              Val(reported)[1] * original_size = 100 * v_subset_size * Val(reported)[2]
         /\ original_size = 0 => Val(reported)[1] = 0
    /\ ("size" \in Range(checks) /\ (v_subset_size > original_size \/ v_subset_size = 0)) =>
         /\ result = Some(FALSE)
         /\ "features" \notin Range(checks)

\* The size check failed on a subset larger than the original, after the
\* percentage was reported.
C9_Witness ==
    /\ result = Some(FALSE)
    /\ v_subset_size > original_size
    /\ original_size > 0
    /\ reported # None

====
